---- MODULE Spec2Model ----
(***************************************************************************)
(* A model of tools/make_class_power.py: one call of make_class_power is   *)
(* a run; runs follow one another on the same file system with the same    *)
(* arguments and the same parameter file.                                  *)
(*                                                                         *)
(* Numbers: Python floats are modelled as exact rationals [n, d]; the      *)
(* inputs drawn in Init are such that no rounding would occur in the       *)
(* comparisons the code makes.  Ordering comparisons and arithmetic on a   *)
(* value that failed validation (still a str) raise TypeError, as under    *)
(* Python 3.                                                               *)
(***************************************************************************)
EXTENDS Integers, Sequences, FiniteSets, TLC

VARIABLES args, file, fs, run, pc, config, gparams, pre_params, redshift,
          trans, i, log, engine, err, outcomes

vars == <<args, file, fs, run, pc, config, gparams, pre_params, redshift,
          trans, i, log, engine, err, outcomes>>

\* ------------------------------------------------------------ bounds
MaxRuns == 2
MaxExtraz == 2

\* ------------------------------------------------------- exact numbers
RECURSIVE Gcd(_, _)
Gcd(a, b) == IF b = 0 THEN a ELSE Gcd(b, a % b)

Abs(x) == IF x < 0 THEN -x ELSE x

\* the rational n/d in lowest terms, d > 0
R(n, d) ==
    LET s == IF d < 0 THEN -1 ELSE 1
        g == Gcd(Abs(n), Abs(d))
    IN  [n |-> (s * n) \div g, d |-> (s * d) \div g]

Z(n) == [n |-> n, d |-> 1]

RAdd(a, b) == LET l == (a.d \div Gcd(a.d, b.d)) * b.d
              IN  R(a.n * (l \div a.d) + b.n * (l \div b.d), l)
RNeg(a) == [n |-> -a.n, d |-> a.d]
RSub(a, b) == RAdd(a, RNeg(b))
RMul(a, b) == LET g1 == Gcd(Abs(a.n), b.d)
                  g2 == Gcd(Abs(b.n), a.d)
              IN  R((a.n \div g1) * (b.n \div g2), (a.d \div g2) * (b.d \div g1))
\* b # 0
RDiv(a, b) == RMul(a, R(b.d, b.n))
RLt(a, b) == a.n * b.d < b.n * a.d
RLe(a, b) == a.n * b.d <= b.n * a.d
RGt(a, b) == RLt(b, a)
RGe(a, b) == RLe(b, a)
RMax(a, b) == IF RLt(a, b) THEN b ELSE a

\* ------------------------------------------------------ Python values
None == [none |-> TRUE]
IsNone(x) == "none" \in DOMAIN x

\* A paramfile entry is text: Lit(r) is the text of the number r, Word(w) is
\* text that is no number.  A validated numeric entry is the number itself;
\* an entry that fails its check keeps its text (a str).
Lit(r) == [lit |-> r]
Word(w) == [word |-> w]
IsNum(v) == DOMAIN v = {"n", "d"}

\* ----------------------------------------------------- GenICconfigspec
NoBound == [has |-> FALSE]
Bound(r) == [has |-> TRUE, v |-> r]

StringSpec(def) ==
    [type |-> "string", min |-> NoBound, max |-> NoBound, default |-> Bound(def)]
NumSpec(type, min, max, def) ==
    [type |-> type, min |-> min, max |-> max, default |-> def]

GenICconfigspec ==
    "FileWithInputSpectrum" :> StringSpec("")
 @@ "FileWithTransferFunction" :> StringSpec("")
 @@ "Ngrid" :> NumSpec("integer", Bound(Z(0)), NoBound, NoBound)
 @@ "BoxSize" :> NumSpec("float", Bound(Z(0)), NoBound, NoBound)
 @@ "Omega0" :> NumSpec("float", Bound(Z(0)), Bound(Z(1)), NoBound)
 @@ "OmegaLambda" :> NumSpec("float", Bound(Z(0)), Bound(Z(1)), NoBound)
 @@ "OmegaBaryon" :> NumSpec("float", Bound(Z(0)), Bound(Z(1)), Bound(R(486, 10000)))
 @@ "HubbleParam" :> NumSpec("float", Bound(Z(0)), Bound(Z(2)), NoBound)
 @@ "Redshift" :> NumSpec("float", Bound(Z(0)), Bound(Z(1100)), NoBound)
 @@ "Sigma8" :> NumSpec("float", NoBound, NoBound, Bound(Z(-1)))
 @@ "InputPowerRedshift" :> NumSpec("float", NoBound, NoBound, Bound(Z(-1)))
 @@ "DifferentTransferFunctions" :> NumSpec("integer", Bound(Z(0)), Bound(Z(1)), Bound(Z(1)))
 @@ "UnitLength_in_cm" :> NumSpec("float", NoBound, NoBound, Bound(Z(1)))
 @@ "Omega_fld" :> NumSpec("float", Bound(Z(0)), Bound(Z(1)), Bound(Z(0)))
 @@ "w0_fld" :> NumSpec("float", NoBound, NoBound, Bound(Z(-1)))
 @@ "wa_fld" :> NumSpec("float", NoBound, NoBound, Bound(Z(0)))
 @@ "MNue" :> NumSpec("float", Bound(Z(0)), NoBound, Bound(Z(0)))
 @@ "MNum" :> NumSpec("float", Bound(Z(0)), NoBound, Bound(Z(0)))
 @@ "MNut" :> NumSpec("float", Bound(Z(0)), NoBound, Bound(Z(0)))
 @@ "MWDM_Therm" :> NumSpec("float", Bound(Z(0)), NoBound, Bound(Z(0)))
 @@ "PrimordialIndex" :> NumSpec("float", NoBound, NoBound, Bound(R(971, 1000)))
 @@ "PrimordialAmp" :> NumSpec("float", NoBound, NoBound, Bound(R(2215, 1000)))
 @@ "CMBTemperature" :> NumSpec("float", NoBound, NoBound, Bound(R(27255, 10000)))

\* Lengths are in units of 3.085678e21 cm (the default UnitLength_in_cm), and
\* PrimordialAmp in units of 1e-9.
MPC_in_cm == Z(1000)

\* validate's check of one entry against its spec: TRUE when it passes
VdtCheck(spec, text) ==
    CASE spec.type = "string" -> TRUE
      [] "word" \in DOMAIN text -> FALSE
      [] OTHER ->
            /\ spec.type = "integer" => text.lit.d = 1
            /\ spec.min.has => RGe(text.lit, spec.min.v)
            /\ spec.max.has => RLe(text.lit, spec.max.v)

VdtConvert(spec, text) == IF spec.type = "string" THEN text ELSE text.lit

\* config.validate(vtor): an entry that passes is converted, one that fails
\* keeps its text, an absent one takes its default or stays absent.  The
\* result of validate (which entries failed) is what the call returns.
Validated(raw) ==
    LET present == {k \in DOMAIN GenICconfigspec :
                        k \in DOMAIN raw \/ GenICconfigspec[k].default.has}
    IN  [k \in present |->
            IF k \in DOMAIN raw
            THEN IF VdtCheck(GenICconfigspec[k], raw[k])
                 THEN VdtConvert(GenICconfigspec[k], raw[k])
                 ELSE raw[k]
            ELSE GenICconfigspec[k].default.v]

\* the entries validate reports as failed (or missing)
ValidationFailures(raw) ==
    {k \in DOMAIN GenICconfigspec :
        IF k \in DOMAIN raw THEN ~VdtCheck(GenICconfigspec[k], raw[k])
                            ELSE ~GenICconfigspec[k].default.has}

\* --------------------------------------------------------------- paths
\* A path is a directory part and a file name; "" is the working directory.
Path(dir, name) == [dir |-> dir, name |-> name]

\* os.path.split(paramfile)[0]
SplitHead(p) == p.dir

\* os.path.join(sdir, name), for a relative name
Join(sdir, name) == Path(sdir, name)

\* the file a path names: "./x" and "x" are the same file
Resolve(p) == Path(IF p.dir = "." THEN "" ELSE p.dir, p.name)

\* os.path.exists(p) on the file system files
Exists(files, p) == Resolve(p) \in DOMAIN files

\* str of the integer part alone: "49"
PyStrOfInt(r) == ToString(r.n \div r.d)

\* str(red) of a float with at most one decimal: str(49.0) = "49.0"
PyStr(r) ==
    ToString(r.n \div r.d) \o "." \o ToString(((r.n % r.d) * 10) \div r.d)

\* ------------------------------------------------------------- events
EvExists(p) == [op |-> "exists", path |-> p]
EvWrite(p) == [op |-> "write", path |-> p]
EvEngine == [op |-> "ClassEngine"]
EvTransfer(z) == [op |-> "get_transfer", z |-> z]
EvPklin(z) == [op |-> "get_pklin", z |-> z]

\* ---------------------------------------------------------- exceptions
\* line 65
ErrNoSavefile == "IOError: No savefile specified for"
\* lines 67, 190, 204
ErrRefusing == "IOError: Refusing to write to existing file"
\* line 71
ErrWarmDarkMatter == "ValueError: Warm dark matter power spectrum cutoff not yet supported."
\* line 74
ErrRescaling == "ValueError: Rescaling with different transfer functions not supported."
\* lines 182, 197: the name transferfile is not defined in make_class_power
ErrTransferfile == "NameError: name 'transferfile' is not defined"

\* ------------------------------------------------- _check_genic_config
\* config['DifferentTransferFunctions'] == 1.
DifferentTransfer(cfg) == cfg["DifferentTransferFunctions"] = Z(1)

\* lines 60-62
Filekeys(cfg) ==
    <<"FileWithInputSpectrum">>
    \o (IF DifferentTransfer(cfg) THEN <<"FileWithTransferFunction">> ELSE <<>>)

\* lines 63-67: the loop over filekeys from position j on; the result is
\* the exception raised ("none" when the loop ends) and the probes made
RECURSIVE CheckFiles(_, _, _, _)
CheckFiles(cfg, files, keys, j) ==
    IF j > Len(keys) THEN [err |-> "none", probes |-> <<>>]
    ELSE IF cfg[keys[j]] = "" THEN [err |-> ErrNoSavefile, probes |-> <<>>]
    ELSE LET p == Path("", cfg[keys[j]])
         IN  IF Exists(files, p)
             THEN [err |-> ErrRefusing,
                   probes |-> <<EvExists(p)>>]
             ELSE LET rest == CheckFiles(cfg, files, keys, j + 1)
                  IN  [err |-> rest.err, probes |-> <<EvExists(p)>> \o rest.probes]

\* lines 69-74: the unsupported configurations
UnsupportedWithoutWDM(cfg) ==
    CASE ~IsNum(cfg["MWDM_Therm"]) -> "TypeError"
      [] DifferentTransfer(cfg) /\ ~IsNum(cfg["InputPowerRedshift"]) -> "TypeError"
      [] DifferentTransfer(cfg) /\ RGe(cfg["InputPowerRedshift"], Z(0)) ->
            ErrRescaling
      [] OTHER -> "none"

Unsupported(cfg) ==
    CASE ~IsNum(cfg["MWDM_Therm"]) -> "TypeError"
      [] RGt(cfg["MWDM_Therm"], Z(0)) ->
            ErrWarmDarkMatter
      [] DifferentTransfer(cfg) /\ ~IsNum(cfg["InputPowerRedshift"]) -> "TypeError"
      [] DifferentTransfer(cfg) /\ RGe(cfg["InputPowerRedshift"], Z(0)) ->
            ErrRescaling
      [] OTHER -> "none"

\* _check_genic_config(config), lines 56-74: validate's result is not looked
\* at; the file checks come first, then the unsupported configurations.
\* config is the loaded file, validated in place.
CheckGenicConfig(raw, files) ==
    LET cfg == Validated(raw)
        fc == CheckFiles(cfg, files, Filekeys(cfg), 1)
    IN  [config |-> cfg,
         err |-> IF fc.err # "none" THEN fc.err ELSE Unsupported(cfg),
         probes |-> fc.probes]

\* ---------------------------------------------- _build_cosmology_params
Missing(cfg, k) == k \notin DOMAIN cfg
NotNum(cfg, k) == ~IsNum(cfg[k])

\* line 80
Omeganu(cfg) ==
    LET h0 == cfg["HubbleParam"]
    IN  RDiv(RDiv(RAdd(RAdd(cfg["MNue"], cfg["MNum"]), cfg["MNut"]), R(9314, 100)),
             RMul(h0, h0))

\* lines 81-82: the config after the baryon default is applied
BaryonDefaultAtThreshold(cfg) ==
    IF RLe(cfg["OmegaBaryon"], R(1, 1000))
    THEN [cfg EXCEPT !["OmegaBaryon"] = R(486, 10000)]
    ELSE cfg

BaryonDefault(cfg) ==
    IF RLt(cfg["OmegaBaryon"], R(1, 1000))
    THEN [cfg EXCEPT !["OmegaBaryon"] = R(486, 10000)]
    ELSE cfg

\* '%.2f' % m, for m >= 0: m rounded to two decimals
Fmt2(m) == R((2 * m.n * 100 + m.d) \div (2 * m.d), 100)

\* lines 93-111: massive neutrinos
NeutrinoParamsAlwaysMassive(cfg, omeganu) ==
    IF RGe(omeganu, Z(0))
    THEN "m_ncdm" :> <<Fmt2(cfg["MNue"]), Fmt2(cfg["MNum"]), Fmt2(cfg["MNut"])>>
      @@ "N_ncdm" :> Z(3)
      @@ "N_ur" :> R(641, 100000)
      @@ "tol_ncdm_newtonian" :> R(1, 100000)
      @@ "tol_ncdm_synchronous" :> R(1, 100000)
      @@ "tol_ncdm_bg" :> [exp10 |-> -10]
      @@ "l_max_ncdm" :> Z(50)
      @@ "ncdm_fluid_approximation" :> Z(3)
    ELSE "N_ur" :> R(3046, 1000)

NeutrinoParams(cfg, omeganu) ==
    IF RGt(omeganu, Z(0))
    THEN "m_ncdm" :> <<Fmt2(cfg["MNue"]), Fmt2(cfg["MNum"]), Fmt2(cfg["MNut"])>>
      @@ "N_ncdm" :> Z(3)
      @@ "N_ur" :> R(641, 100000)
      @@ "tol_ncdm_newtonian" :> R(1, 100000)
      @@ "tol_ncdm_synchronous" :> R(1, 100000)
      @@ "tol_ncdm_bg" :> [exp10 |-> -10]
      @@ "l_max_ncdm" :> Z(50)
      @@ "ncdm_fluid_approximation" :> Z(3)
    ELSE "N_ur" :> R(3046, 1000)

\* lines 112-117: power spectrum amplitude
AmplitudeParamsBoth(cfg) ==
    IF RGt(cfg["Sigma8"], Z(0))
    THEN "sigma8" :> cfg["Sigma8"] @@ "A_s" :> cfg["PrimordialAmp"]
    ELSE "A_s" :> cfg["PrimordialAmp"]

AmplitudeParams(cfg) ==
    IF RGt(cfg["Sigma8"], Z(0))
    THEN "sigma8" :> cfg["Sigma8"]
    ELSE "A_s" :> cfg["PrimordialAmp"]

\* lines 86-92: dark energy
FldParams(cfg) ==
    "Omega_fld" :> cfg["Omega_fld"]
    @@ (IF RGt(cfg["Omega_fld"], Z(0))
        THEN "w0_fld" :> cfg["w0_fld"] @@ "wa_fld" :> cfg["wa_fld"]
        ELSE <<>>)

\* the exception _build_cosmology_params raises, by the line that raises
\* first; "none" when it returns
BuildError(cfg) ==
    CASE Missing(cfg, "HubbleParam") -> "KeyError"
      [] NotNum(cfg, "MNue") \/ NotNum(cfg, "MNum") \/ NotNum(cfg, "MNut")
            \/ NotNum(cfg, "HubbleParam") -> "TypeError"
      [] cfg["HubbleParam"] = Z(0) -> "ZeroDivisionError"
      [] NotNum(cfg, "OmegaBaryon") -> "TypeError"
      [] Missing(cfg, "Omega0") -> "KeyError"
      [] NotNum(cfg, "Omega0") -> "TypeError"
      [] Missing(cfg, "OmegaLambda") -> "KeyError"
      [] NotNum(cfg, "OmegaLambda") -> "TypeError"
      [] NotNum(cfg, "Omega_fld") -> "TypeError"
      [] NotNum(cfg, "Sigma8") -> "TypeError"
      [] OTHER -> "none"

\* _build_cosmology_params(config), lines 76-118, when it returns: the
\* parameters, and the config it leaves behind
BuildCosmologyParams(cfg) ==
    LET omeganu == Omeganu(cfg)
        c2 == BaryonDefault(cfg)
        ocdm == RSub(RSub(c2["Omega0"], c2["OmegaBaryon"]), omeganu)
        omegak == RSub(RSub(Z(1), c2["OmegaLambda"]), c2["Omega0"])
    IN  [config |-> c2,
         omeganu |-> omeganu,
         gparams |->
            AmplitudeParams(c2) @@ NeutrinoParams(c2, omeganu) @@ FldParams(c2)
            @@ "h" :> c2["HubbleParam"] @@ "Omega_cdm" :> ocdm
            @@ "Omega_b" :> c2["OmegaBaryon"] @@ "Omega_k" :> omegak
            @@ "n_s" :> c2["PrimordialIndex"] @@ "T_cmb" :> c2["CMBTemperature"]]

\* ----------------------------------------------------- make_class_power
\* line 142-145
PrecisionParams ==
    "tol_background_integration" :> [exp10 |-> -9]
 @@ "tol_perturb_integration" :> [exp10 |-> -7]
 @@ "tol_thermo_integration" :> R(1, 100000)
 @@ "k_per_decade_for_pk" :> Z(20)
 @@ "k_per_decade_for_bao" :> Z(200)
 @@ "neglect_CMB_sources_below_visibility" :> [exp10 |-> -30]
 @@ "transfer_neglect_late_source" :> Z(3000)
 @@ "l_max_g" :> Z(50)
 @@ "l_max_ur" :> Z(150)
 @@ "gauge" :> "synchronous"

\* line 163
VerbParams ==
    [k \in {"input_verbose", "background_verbose", "thermodynamics_verbose",
            "perturbations_verbose", "transfer_verbose", "primordial_verbose",
            "spectra_verbose", "nonlinear_verbose", "lensing_verbose",
            "output_verbose"} |-> Z(1)]

\* dict.update: the entries of new replace those of old
Update(old, new) == new @@ old

\* lines 149-151
PrimaryRedshift(cfg) ==
    IF RGe(cfg["InputPowerRedshift"], Z(0)) THEN cfg["InputPowerRedshift"]
    ELSE cfg["Redshift"]

\* lines 152-154
Outputs(z, extraz) == <<z>> \o (IF IsNone(extraz) THEN <<>> ELSE extraz.list)

RECURSIVE SeqMax(_)
SeqMax(s) == IF Len(s) = 1 THEN s[1] ELSE RMax(s[1], SeqMax(Tail(s)))

\* line 157
Boxmpc(cfg) == RMul(RDiv(cfg["BoxSize"], MPC_in_cm), cfg["UnitLength_in_cm"])

\* the exception lines 149-160 raise, by the line that raises first
PowerError(cfg) ==
    CASE Missing(cfg, "Redshift") -> "KeyError"
      [] NotNum(cfg, "InputPowerRedshift") -> "TypeError"
      [] Missing(cfg, "BoxSize") -> "KeyError"
      [] NotNum(cfg, "BoxSize") \/ NotNum(cfg, "UnitLength_in_cm") -> "TypeError"
      [] Boxmpc(cfg) = Z(0) -> "ZeroDivisionError"
      [] Missing(cfg, "Ngrid") -> "KeyError"
      [] NotNum(cfg, "Ngrid") -> "TypeError"
      [] NotNum(cfg, "Redshift") -> "TypeError"
      [] OTHER -> "none"

\* lines 156-159; maxk is a multiple of pi
PowerParams(cfg, outputs) ==
    "output" :> "dTk vTk mPk"
 @@ "P_k_max_h/Mpc" :> [pi_times |-> RMul(RMul(RDiv(Z(2), Boxmpc(cfg)), cfg["Ngrid"]), Z(16))]
 @@ "z_max_pk" :> RAdd(Z(1), SeqMax(outputs))
 @@ "z_pk" :> outputs
 @@ "extra metric transfer functions" :> "y"

\* lines 166-169
ExternalPkParams(external_pk) ==
    IF IsNone(external_pk) THEN <<>>
    ELSE "P_k_ini" :> "external_pk" @@ "command" :> <<"cat ", external_pk.s>>

\* line 176
Sdir == SplitHead(args.paramfile)

\* line 179: whether the primary transfer function is saved
SavePrimaryTransferAlways(cfg) == TRUE

SavePrimaryTransfer(cfg) == DifferentTransfer(cfg)

\* lines 180, 188, 195, 202: the output files
PrimaryTransferFile(cfg) == Join(Sdir, cfg["FileWithTransferFunction"])
PrimaryPkFile(cfg) == Join(Sdir, cfg["FileWithInputSpectrum"])

ExtraTransferFile(cfg, red) ==
    Join(Sdir, cfg["FileWithTransferFunction"] \o "-" \o PyStr(red))
ExtraPkFile(cfg, red) ==
    Join(Sdir, cfg["FileWithInputSpectrum"] \o "-" \o PyStr(red))

\* what a run writes: the table, its redshift, the run that wrote it
Table(kind, z) == [kind |-> kind, z |-> z, run |-> run]
OldFile == [kind |-> "old"]

\* the run ends: with an exception, or by returning
Raise(e) ==
    /\ pc' = "failed"
    /\ err' = e
    /\ outcomes' = Append(outcomes, e)

Return ==
    /\ pc' = "done"
    /\ err' = "none"
    /\ outcomes' = Append(outcomes, "returned")

\* lines 137-139: load the paramfile and check it
CheckConfig ==
    /\ pc = "start"
    /\ LET r == CheckGenicConfig(file, fs)
       IN  /\ config' = r.config
           /\ log' = log \o r.probes
           /\ IF r.err # "none" THEN Raise(r.err)
              ELSE pc' = "build" /\ UNCHANGED <<err, outcomes>>
    /\ UNCHANGED <<args, file, fs, run, gparams, pre_params, redshift, trans, i, engine>>

\* lines 141-148
BuildParams ==
    /\ pc = "build"
    /\ IF BuildError(config) # "none"
       THEN /\ Raise(BuildError(config))
            /\ UNCHANGED <<config, gparams, pre_params>>
       ELSE LET b == BuildCosmologyParams(config)
            IN  /\ config' = b.config
                /\ gparams' = b.gparams
                /\ pre_params' = Update(PrecisionParams, b.gparams)
                /\ pc' = "power"
                /\ UNCHANGED <<err, outcomes>>
    /\ UNCHANGED <<args, file, fs, run, redshift, trans, i, log, engine>>

\* lines 149-169
SetPowerParams ==
    /\ pc = "power"
    /\ IF PowerError(config) # "none"
       THEN /\ Raise(PowerError(config))
            /\ UNCHANGED <<pre_params, redshift>>
       ELSE LET z == PrimaryRedshift(config)
                p1 == Update(pre_params, PowerParams(config, Outputs(z, args.extraz)))
                p2 == IF args.verbose THEN Update(p1, VerbParams) ELSE p1
            IN  /\ redshift' = z
                /\ pre_params' = Update(p2, ExternalPkParams(args.external_pk))
                /\ pc' = "engine"
                /\ UNCHANGED <<err, outcomes>>
    /\ UNCHANGED <<args, file, fs, run, config, gparams, trans, i, log, engine>>

\* lines 171-173: the solver is constructed from pre_params
MakeEngine ==
    /\ pc = "engine"
    /\ engine' = Append(engine, pre_params)
    /\ log' = Append(log, EvEngine)
    /\ pc' = "primary_transfer"
    /\ UNCHANGED <<args, file, fs, run, config, gparams, pre_params, redshift,
                   trans, i, err, outcomes>>

\* lines 181-183 and 196-198: the transfer function is saved unless the file
\* exists; the raise names transferfile, which make_class_power does not define
SaveTransfer(tfile, z, next) ==
    IF Exists(fs, tfile)
    THEN /\ Raise(ErrTransferfile)
         /\ log' = log \o <<EvTransfer(z), EvExists(tfile)>>
         /\ trans' = [z |-> z, k_nudged |-> FALSE]
         /\ UNCHANGED fs
    ELSE /\ fs' = (Resolve(tfile) :> Table("transfer", z)) @@ fs
         /\ log' = log \o <<EvTransfer(z), EvExists(tfile), EvWrite(tfile)>>
         /\ trans' = [z |-> z, k_nudged |-> TRUE]
         /\ pc' = next
         /\ UNCHANGED <<err, outcomes>>

\* lines 189-191 and 203-205
SavePk(pkfile, z) ==
    IF Exists(fs, pkfile)
    THEN /\ Raise(ErrRefusing)
         /\ log' = log \o <<EvPklin(z), EvExists(pkfile)>>
         /\ UNCHANGED <<fs, i>>
    ELSE /\ fs' = (Resolve(pkfile) :> Table("pk", z)) @@ fs
         /\ log' = log \o <<EvPklin(z), EvExists(pkfile), EvWrite(pkfile)>>
         /\ IF ~IsNone(args.extraz) /\ i < Len(args.extraz.list)
            THEN /\ i' = i + 1
                 /\ pc' = "extra_transfer"
                 /\ UNCHANGED <<err, outcomes>>
            ELSE /\ Return
                 /\ UNCHANGED i

\* lines 175-185
PrimaryTransfer ==
    /\ pc = "primary_transfer"
    /\ IF SavePrimaryTransfer(config)
       THEN SaveTransfer(PrimaryTransferFile(config), redshift, "primary_pk")
       ELSE /\ log' = Append(log, EvTransfer(redshift))
            /\ trans' = [z |-> redshift, k_nudged |-> TRUE]
            /\ pc' = "primary_pk"
            /\ UNCHANGED <<fs, err, outcomes>>
    /\ UNCHANGED <<args, file, run, config, gparams, pre_params, redshift, i, engine>>

\* lines 186-193
PrimaryPk ==
    /\ pc = "primary_pk"
    /\ SavePk(PrimaryPkFile(config), redshift)
    /\ UNCHANGED <<args, file, run, config, gparams, pre_params, redshift, trans, engine>>

\* lines 194-199, for red = extraz[i]
ExtraTransfer ==
    /\ pc = "extra_transfer"
    /\ SaveTransfer(ExtraTransferFile(config, args.extraz.list[i]),
                    args.extraz.list[i], "extra_pk")
    /\ UNCHANGED <<args, file, run, config, gparams, pre_params, redshift, i, engine>>

\* lines 200-205, for red = extraz[i]
ExtraPk ==
    /\ pc = "extra_pk"
    /\ SavePk(ExtraPkFile(config, args.extraz.list[i]), args.extraz.list[i])
    /\ UNCHANGED <<args, file, run, config, gparams, pre_params, redshift, trans, engine>>

\* the script is called again: same arguments, same paramfile, the file
\* system as the last run left it
Rerun ==
    /\ pc \in {"done", "failed"}
    /\ run < MaxRuns
    /\ run' = run + 1
    /\ pc' = "start"
    /\ config' = <<>>
    /\ gparams' = <<>>
    /\ pre_params' = <<>>
    /\ redshift' = None
    /\ trans' = None
    /\ i' = 0
    /\ log' = <<>>
    /\ engine' = <<>>
    /\ err' = "none"
    /\ UNCHANGED <<args, file, fs, outcomes>>

Next ==
    \/ CheckConfig
    \/ BuildParams
    \/ SetPowerParams
    \/ MakeEngine
    \/ PrimaryTransfer
    \/ PrimaryPk
    \/ ExtraTransfer
    \/ ExtraPk
    \/ Rerun

\* ------------------------------------------------------------- inputs
\* a paramfile that passes every check, at its defaults where it has them
BaseFile ==
    "FileWithInputSpectrum" :> "pk"
 @@ "FileWithTransferFunction" :> "tk"
 @@ "Ngrid" :> Lit(Z(256))
 @@ "BoxSize" :> Lit(Z(100000))
 @@ "Omega0" :> Lit(R(3, 10))
 @@ "OmegaLambda" :> Lit(R(7, 10))
 @@ "HubbleParam" :> Lit(R(7, 10))
 @@ "Redshift" :> Lit(Z(99))

With(f, k, v) == (k :> v) @@ f
Without(f, k) == [x \in DOMAIN f \ {k} |-> f[x]]

ExtraRedshifts == {Z(9), Z(49)}

RECURSIVE SeqsUpTo(_, _)
SeqsUpTo(S, n) ==
    IF n = 0 THEN {<<>>}
    ELSE LET shorter == SeqsUpTo(S, n - 1)
         IN  shorter \cup {Append(s, x) : s \in {t \in shorter : Len(t) = n - 1}, x \in S}

ExtrazChoices == {None} \cup {[list |-> s] : s \in SeqsUpTo(ExtraRedshifts, MaxExtraz)}

\* paramfiles that differ from BaseFile in one numeric entry
Defects ==
    { BaseFile,
      With(BaseFile, "BoxSize", Lit(Z(0))),
      Without(BaseFile, "Ngrid") }

StartOfRun ==
    /\ run = 1
    /\ pc = "start"
    /\ config = <<>>
    /\ gparams = <<>>
    /\ pre_params = <<>>
    /\ redshift = None
    /\ trans = None
    /\ i = 0
    /\ log = <<>>
    /\ engine = <<>>
    /\ err = "none"
    /\ outcomes = <<>>

\* any paramfile directory, file names, transfer-function and rescaling
\* options, extra redshifts, and a file that may already be there
Init ==
    /\ \E pf \in {Path("", "p.genic"), Path(".", "p.genic"), Path("sub", "p.genic")},
          ez \in ExtrazChoices :
            args = [paramfile |-> pf, external_pk |-> None, extraz |-> ez,
                    verbose |-> FALSE]
    /\ \E base \in Defects,
          fis \in {"", "pk"},
          ftf \in {"", "tk"},
          dtf \in {Z(0), Z(1), Z(2)},
          wdm \in {Z(0), Z(1)},
          ipr \in {Z(-1), Z(5)} :
            file = With(With(With(With(With(base,
                        "FileWithInputSpectrum", fis),
                        "FileWithTransferFunction", ftf),
                        "DifferentTransferFunctions", Lit(dtf)),
                        "MWDM_Therm", Lit(wdm)),
                        "InputPowerRedshift", Lit(ipr))
    /\ \E old \in {{}, {Path("", "pk")}, {Path("sub", "pk")}, {Path("sub", "tk-49.0")}} :
            fs = [p \in old |-> OldFile]
    /\ StartOfRun

\* any cosmology, for one paramfile directory and one set of file names
InitCosmo ==
    /\ \E a \in {<<None, FALSE, None>>,
                  <<[list |-> <<Z(49)>>], TRUE, [s |-> "ext.dat"]>>} :
            args = [paramfile |-> Path("sub", "p.genic"), external_pk |-> a[3],
                    extraz |-> a[1], verbose |-> a[2]]
    /\ \E base \in {BaseFile,
                    With(BaseFile, "Omega0", Lit(R(3, 2))),
                    With(BaseFile, "PrimordialIndex", Word("abc"))},
          ob \in {Z(0), R(9, 10000), R(1, 1000), R(486, 10000), R(5, 100)},
          h0 \in {Z(0), R(7, 10), Z(2), Z(3)},
          s8 \in {Z(-1), Z(0), R(8, 10)},
          fld \in {Z(0), R(1, 10)},
          me \in {Z(0), R(6, 100)},
          mm \in {Z(0), R(6, 100)},
          mt \in {Z(0), R(4, 1000)},
          dtf \in {Z(1)} :
            file = With(With(With(With(With(With(With(With(base,
                        "OmegaBaryon", Lit(ob)),
                        "HubbleParam", Lit(h0)),
                        "Sigma8", Lit(s8)),
                        "Omega_fld", Lit(fld)),
                        "MNue", Lit(me)),
                        "MNum", Lit(mm)),
                        "MNut", Lit(mt)),
                        "DifferentTransferFunctions", Lit(dtf))
    /\ fs = <<>>
    /\ StartOfRun

Spec == Init /\ [][Next]_vars

SpecCosmo == InitCosmo /\ [][Next]_vars

\* ------------------------------------------------------ what a run did
IsWrite(e) == e.op = "write"
IsQuery(e) == e.op \in {"get_transfer", "get_pklin"}

\* the paths this run has written, in order
Writes == SelectSeq(log, IsWrite)

Wrote(p) == \E j \in 1..Len(log) : log[j] = EvWrite(p)

Ended == pc \in {"done", "failed"}

\* the configuration has been loaded and built into solver parameters
Built == DOMAIN gparams # {}

\* the suffix of the files of an extra redshift, written out
Suffix(z) == IF z = Z(9) THEN "-9.0" ELSE "-49.0"

ExtraList == IF IsNone(args.extraz) THEN <<>> ELSE args.extraz.list

\* ------------------------------------------------------------- claims

\* C1: when the script is run a second time against the same config after a
\* run that returned, the second run fails with the "Refusing to write to
\* existing file" IOError and writes nothing.
C1_SecondRunRefuses ==
    (run = 2 /\ Ended /\ outcomes[1] = "returned")
        => (err = ErrRefusing /\ Writes = <<>>)

\* C1 (general part): no step of any run changes or removes a file that exists.
C1_NoOverwrite ==
    [][\A p \in DOMAIN fs : p \in DOMAIN fs' /\ fs'[p] = fs[p]]_vars

\* C2: a configuration that violates the schema (a failed or missing entry)
\* aborts the run before the solver engine is constructed and before any
\* file is written.
C2_InvalidConfigAborts ==
    (pc # "start" /\ ValidationFailures(file) # {})
        => (engine = <<>> /\ Writes = <<>>)

\* C3: the solver engine is never constructed in a run whose primary target
\* file (the power-spectrum file, and the transfer-function file when
\* DifferentTransferFunctions = 1) exists in the paramfile's directory, nor
\* in one whose required file name is empty.
C3_ExistingTargetFailsEarly ==
    pc = "primary_transfer" =>
        /\ config["FileWithInputSpectrum"] # ""
        /\ ~Exists(fs, Join(Sdir, config["FileWithInputSpectrum"]))
        /\ DifferentTransfer(config) =>
            /\ config["FileWithTransferFunction"] # ""
            /\ ~Exists(fs, Join(Sdir, config["FileWithTransferFunction"]))

\* the unsupported configurations C4 is about
IsUnsupported(cfg) ==
    \/ RGt(cfg["MWDM_Therm"], Z(0))
    \/ cfg["DifferentTransferFunctions"] = Z(1) /\ RGe(cfg["InputPowerRedshift"], Z(0))

PolicyErrors == {ErrWarmDarkMatter, ErrRescaling}

\* the file names _check_genic_config requires are given and name no file
\* of the working directory
RequiredFilesFree(cfg) ==
    \A k \in {"FileWithInputSpectrum"}
             \cup (IF cfg["DifferentTransferFunctions"] = Z(1)
                   THEN {"FileWithTransferFunction"} ELSE {}) :
        cfg[k] # "" /\ Path("", cfg[k]) \notin DOMAIN fs

\* C4 as stated: an unsupported configuration raises the policy error, and no
\* file-existence probe, solver call or write comes before it.
C4_PolicyErrorBeforeIO ==
    (pc # "start" /\ IsUnsupported(config))
        => (pc = "failed" /\ err \in PolicyErrors /\ log = <<>>)

\* C4 as amended: an unsupported configuration fails the run before the solver
\* engine is constructed and before any file is written; the error is the
\* policy error when the required file names are given and name no existing
\* file of the working directory, and the IOError of that file check otherwise.
C4_UnsupportedFailsBeforeSolver ==
    (pc # "start" /\ IsUnsupported(config)) =>
        /\ pc = "failed"
        /\ engine = <<>>
        /\ \A j \in 1..Len(log) : log[j].op = "exists"
        /\ IF RequiredFilesFree(config)
           THEN err \in PolicyErrors
           ELSE err \in {ErrNoSavefile, ErrRefusing}

C4_Witness ==
    /\ pc = "failed"
    /\ RGt(config["MWDM_Therm"], Z(0))
    /\ err = ErrWarmDarkMatter
    /\ Len(log) = 2

\* exactly one of sigma8 and A_s is a key of m, sigma8 iff Sigma8 > 0
AmplitudeOf(m, cfg) ==
    /\ ("sigma8" \in DOMAIN m) # ("A_s" \in DOMAIN m)
    /\ IF RGt(cfg["Sigma8"], Z(0))
       THEN "sigma8" \in DOMAIN m /\ m["sigma8"] = cfg["Sigma8"]
       ELSE "A_s" \in DOMAIN m /\ m["A_s"] = cfg["PrimordialAmp"]

\* C5: the parameters _build_cosmology_params returns hold exactly one of
\* sigma8 and A_s: sigma8 (= Sigma8) iff Sigma8 > 0, else A_s
\* (= PrimordialAmp); so do the parameters passed to the solver.
C5_OneAmplitude ==
    Built =>
        /\ AmplitudeOf(gparams, config)
        /\ AmplitudeOf(pre_params, config)
        /\ \A j \in 1..Len(engine) : AmplitudeOf(engine[j], config)

C5_Witness ==
    /\ Len(engine) = 1
    /\ args.verbose
    /\ config["Sigma8"] = Z(0)
    /\ "A_s" \in DOMAIN engine[1]
    /\ "output_verbose" \in DOMAIN engine[1]

MassiveKeys ==
    {"m_ncdm", "N_ncdm", "tol_ncdm_newtonian", "tol_ncdm_synchronous",
     "tol_ncdm_bg", "l_max_ncdm", "ncdm_fluid_approximation"}

AnyMass(cfg) ==
    RGt(cfg["MNue"], Z(0)) \/ RGt(cfg["MNum"], Z(0)) \/ RGt(cfg["MNut"], Z(0))

C7_BaryonDefault ==
    Built =>
        LET loaded == Validated(file)
        IN  /\ DOMAIN config = DOMAIN loaded
            /\ \A k \in DOMAIN loaded \ {"OmegaBaryon"} : config[k] = loaded[k]
            /\ IF RGe(loaded["OmegaBaryon"], R(1, 1000))
               THEN gparams["Omega_b"] = loaded["OmegaBaryon"] /\ config = loaded
               ELSE /\ gparams["Omega_b"] = R(486, 10000)
                    /\ RAdd(RAdd(gparams["Omega_cdm"], R(486, 10000)), Omeganu(loaded))
                          = loaded["Omega0"]

C7_Witness ==
    /\ Built
    /\ Validated(file)["OmegaBaryon"] = R(9, 10000)
    /\ gparams["Omega_b"] = R(486, 10000)
    /\ config["OmegaBaryon"] = R(486, 10000)

\* C8: the solver engine is constructed at most once in a run, and once in
\* every run that passes _check_genic_config; every query and every write
\* comes after it, and every query is at a redshift of its z_pk list, below
\* its z_max_pk.
C8_EngineOnce ==
    /\ Len(engine) <= 1
    /\ (Ended /\ engine = <<>>) => CheckGenicConfig(file, fs).err # "none"
    /\ \A j \in 1..Len(log) :
          (IsQuery(log[j]) \/ IsWrite(log[j])) =>
              /\ engine # <<>>
              /\ \E k \in 1..(j - 1) : log[k] = EvEngine
    /\ \A j \in 1..Len(log) :
          IsQuery(log[j]) =>
              /\ \E k \in 1..Len(engine[1]["z_pk"]) : engine[1]["z_pk"][k] = log[j].z
              /\ RGt(engine[1]["z_max_pk"], log[j].z)

\* the files a run with DifferentTransferFunctions = 1 is to write, in order
RECURSIVE ExpectedExtra(_, _)
ExpectedExtra(cfg, zs) ==
    IF zs = <<>> THEN <<>>
    ELSE <<[path |-> Path(Sdir, cfg["FileWithTransferFunction"] \o Suffix(Head(zs))),
            kind |-> "transfer", z |-> Head(zs)],
           [path |-> Path(Sdir, cfg["FileWithInputSpectrum"] \o Suffix(Head(zs))),
            kind |-> "pk", z |-> Head(zs)]>>
         \o ExpectedExtra(cfg, Tail(zs))

Expected(cfg) ==
    <<[path |-> Path(Sdir, cfg["FileWithTransferFunction"]),
       kind |-> "transfer", z |-> cfg["Redshift"]],
      [path |-> Path(Sdir, cfg["FileWithInputSpectrum"]),
       kind |-> "pk", z |-> cfg["Redshift"]]>>
    \o ExpectedExtra(cfg, ExtraList)

\* C9: a run with DifferentTransferFunctions = 1 that returns has written, in
\* this order, the unsuffixed transfer and power files of the primary redshift
\* and the transfer and power files suffixed "-<z>" of each extra redshift;
\* every write comes right after an existence probe of the same path; the files
\* a run wrote stay when the run fails later.
C9_OneSetPerRedshift ==
    /\ (pc = "done" /\ DifferentTransfer(config)) =>
          /\ Len(Writes) = Len(Expected(config))
          /\ \A j \in 1..Len(Writes) :
                /\ Writes[j].path = Expected(config)[j].path
                /\ fs[Resolve(Writes[j].path)]
                      = [kind |-> Expected(config)[j].kind,
                         z |-> Expected(config)[j].z, run |-> run]
    /\ \A j \in 1..Len(log) :
          IsWrite(log[j]) => j > 1 /\ log[j - 1] = EvExists(log[j].path)
    /\ pc = "failed" =>
          \A j \in 1..Len(Writes) :
                /\ Resolve(Writes[j].path) \in DOMAIN fs
                /\ fs[Resolve(Writes[j].path)].run = run

C9_Witness ==
    /\ pc = "done"
    /\ DifferentTransfer(config)
    /\ ExtraList = <<Z(49), Z(9)>>
    /\ Len(Writes) = 6
    /\ Writes[3].path = Path(Sdir, "tk-49.0")

\* C10: the primary transfer-function file is written iff
\* DifferentTransferFunctions = 1; the transfer-function file of every extra
\* redshift is written whatever DifferentTransferFunctions is, under the name
\* FileWithTransferFunction (which may be empty) followed by "-<z>".
C10_ExtraTransferAlways ==
    /\ Wrote(Path(Sdir, config["FileWithTransferFunction"]))
          => config["DifferentTransferFunctions"] = Z(1)
    /\ (pc \in {"primary_pk", "extra_transfer", "extra_pk", "done"}
            /\ config["DifferentTransferFunctions"] = Z(1))
          => Wrote(Path(Sdir, config["FileWithTransferFunction"]))
    /\ pc = "done" =>
          \A j \in 1..Len(ExtraList) :
             LET tfile == Path(Sdir, config["FileWithTransferFunction"]
                                        \o Suffix(ExtraList[j]))
             IN  Wrote(tfile) /\ fs[Resolve(tfile)].kind = "transfer"

C10_Witness ==
    /\ pc = "done"
    /\ config["DifferentTransferFunctions"] = Z(0)
    /\ config["FileWithTransferFunction"] = ""
    /\ ExtraList # <<>>
    /\ Wrote(Path(Sdir, "-49.0"))

====
